---- MODULE Spec2Model ----
(***************************************************************************)
(* The ERA archive adapter of src/src/lib.rs (EraFormat): one session with *)
(* its four fields, the reader operations open / item_count / get_item /   *)
(* extract / close / physical_size and the updater update_streaming.       *)
(*                                                                         *)
(* Bytes are naturals below 256, byte strings and names are sequences of   *)
(* bytes, and Option<T> is a sequence of length at most one (<<>> is None, *)
(* <<v>> is Some(v)).  The container library the adapter calls (crate era) *)
(* is modelled by the operators of the first section.                      *)
(***************************************************************************)
EXTENDS Integers, Sequences, FiniteSets, TLC

VARIABLES archive, archive_data, items, archive_size, call, result, sink, staged

vars == <<archive, archive_data, items, archive_size, call, result, sink, staged>>

None == <<>>
Some(v) == <<v>>

(***************************************************************************)
(* Bounds of the explored inputs.                                          *)
(***************************************************************************)
MaxEdits == 2

(***************************************************************************)
(* The container library: encryption, codec, digest, layout.               *)
(***************************************************************************)
TeaKey == 7
Magic == 69

Min(a, b) == IF a < b THEN a ELSE b

RECURSIVE Reverse(_)
Reverse(s) == IF s = <<>> THEN <<>> ELSE Append(Reverse(Tail(s)), Head(s))

RECURSIVE SumSeq(_)
SumSeq(s) == IF s = <<>> THEN 0 ELSE Head(s) + SumSeq(Tail(s))

RECURSIVE Concat(_)
Concat(ss) == IF ss = <<>> THEN <<>> ELSE Head(ss) \o Concat(Tail(ss))

\* EncryptWriter: the byte-wise transform keyed by the archive keys.
EncryptAll(s) == [i \in 1..Len(s) |-> (s[i] + TeaKey) % 256]

\* DecryptReader: the inverse transform.
DecryptAll(s) == [i \in 1..Len(s) |-> (s[i] + 256 - TeaKey) % 256]

\* The codec: a length byte followed by the payload in reverse order.
Compress(d) == <<Len(d)>> \o Reverse(d)

Decompress(c) ==
    IF c = <<>> \/ c[1] # Len(c) - 1
    THEN [ok |-> FALSE, data |-> <<>>]
    ELSE [ok |-> TRUE, data |-> Reverse(Tail(c))]

\* The integrity digest of a compressed chunk.
Tiger128(c) == (SumSeq(c) + 31 * Len(c) + 1) % 251

\* The filename table: each name as a length byte and its bytes.
EncodeNames(names) == Concat([i \in 1..Len(names) |-> <<Len(names[i])>> \o names[i]])

RECURSIVE DecodeNames(_)
DecodeNames(t) ==
    IF t = <<>> THEN [ok |-> TRUE, names |-> <<>>]
    ELSE IF Len(t) < 1 + t[1] THEN [ok |-> FALSE, names |-> <<>>]
    ELSE LET rest == DecodeNames(SubSeq(t, 2 + t[1], Len(t)))
         IN  [ok |-> rest.ok, names |-> <<SubSeq(t, 2, 1 + t[1])>> \o rest.names]

\* A file staged in an EraWriter.
StagedFile(name, comp, decomp_size, tiger128) ==
    [name |-> name, comp |-> comp, decomp_size |-> decomp_size, tiger128 |-> tiger128]

\* EraWriter::add_compressed_file: the entry is staged as given.
add_compressed_file(w, name, comp, decomp_size, tiger128) ==
    Append(w, StagedFile(name, comp, decomp_size, tiger128))

\* EraWriter::add_file: the payload is compressed and its digest computed.
add_file(w, name, data) ==
    Append(w, StagedFile(name, Compress(data), Len(data), Tiger128(Compress(data))))

\* The container layout: magic, entry count, one header per entry
\* (decompressed size, digest, chunk size), then the chunks in entry order.
\* Entry 0 is the filename table built from `names`.
Layout(names, files) ==
    LET table == EncodeNames(names)
        all == <<StagedFile(<<>>, Compress(table), Len(table), Tiger128(Compress(table)))>>
               \o files
    IN  <<Magic, Len(all)>>
        \o Concat([k \in 1..Len(all) |->
                     <<all[k].decomp_size, all[k].tiger128, Len(all[k].comp)>>])
        \o Concat([k \in 1..Len(all) |-> all[k].comp])

\* EraWriter::write: filename table + staged entries, in staging order.
EraWrite(w) == Layout([k \in 1..Len(w) |-> w[k].name], w)

RECURSIVE ChunkOffset(_, _, _)
ChunkOffset(plain, n, k) ==
    IF k = 0 THEN 2 + 3 * n
    ELSE ChunkOffset(plain, n, k - 1) + plain[2 + 3 * (k - 1) + 3]

\* EraArchive::new on the decrypted stream: headers are read, the chunk of
\* entry 0 is decompressed into the filename table, the other chunks are
\* located but not read (a chunk may run past the end of the stream).
EraArchiveNew(plain) ==
    IF Len(plain) < 2 \/ plain[1] # Magic \/ plain[2] < 1
       \/ Len(plain) < 2 + 3 * plain[2]
    THEN [ok |-> FALSE, entries |-> <<>>]
    ELSE
      LET n == plain[2]
          raw == [k \in 1..n |->
                    LET off == ChunkOffset(plain, n, k - 1)
                        sz == plain[2 + 3 * (k - 1) + 3]
                    IN  [decomp_size |-> plain[2 + 3 * (k - 1) + 1],
                         tiger128 |-> plain[2 + 3 * (k - 1) + 2],
                         chunk_size |-> sz,
                         data |-> SubSeq(plain, off + 1, Min(off + sz, Len(plain)))]]
          t == Decompress(raw[1].data)
          nm == DecodeNames(t.data)
      IN  IF Len(raw[1].data) < raw[1].chunk_size \/ ~t.ok
             \/ Len(t.data) # raw[1].decomp_size \/ ~nm.ok
          THEN [ok |-> FALSE, entries |-> <<>>]
          ELSE [ok |-> TRUE,
                entries |-> [k \in 1..n |->
                   [filename |-> IF k >= 2 /\ k - 1 <= Len(nm.names)
                                 THEN Some(nm.names[k - 1]) ELSE None,
                    decomp_size |-> raw[k].decomp_size,
                    tiger128 |-> raw[k].tiger128,
                    chunk_size |-> raw[k].chunk_size,
                    data |-> raw[k].data]]]

\* EraArchive::read_entry_compressed(pos): the stored chunk, the stored
\* decompressed size and the stored digest; fails when the chunk is not
\* wholly in the stream.
read_entry_compressed(entries, pos) ==
    IF pos >= Len(entries) \/ Len(entries[pos + 1].data) < entries[pos + 1].chunk_size
    THEN [ok |-> FALSE, comp |-> <<>>, decomp_size |-> 0, tiger128 |-> 0]
    ELSE [ok |-> TRUE, comp |-> entries[pos + 1].data,
          decomp_size |-> entries[pos + 1].decomp_size,
          tiger128 |-> entries[pos + 1].tiger128]

\* EraArchive::read_entry(pos): the decompressed payload; fails when the
\* chunk cannot be read, does not decode, or does not have the stored size.
read_entry(entries, pos) ==
    LET rc == read_entry_compressed(entries, pos)
        d == Decompress(rc.comp)
    IN  IF ~rc.ok \/ ~d.ok \/ Len(d.data) # rc.decomp_size
        THEN [ok |-> FALSE, data |-> <<>>]
        ELSE [ok |-> TRUE, data |-> d.data]

(***************************************************************************)
(* Results of the adapter's calls (sevenzip_plugin::Result / Error).       *)
(***************************************************************************)
NoResult ==
    [op |-> "none", ok |-> TRUE, kind |-> "", msg |-> "", index |-> 0, count |-> 0,
     pos |-> 0, data |-> <<>>, len |-> 0]

Ok(op) == [NoResult EXCEPT !.op = op]
OkData(op, data) == [NoResult EXCEPT !.op = op, !.data = data]
OkLen(op, len) == [NoResult EXCEPT !.op = op, !.len = len]
ErrIo(op, msg) == [NoResult EXCEPT !.op = op, !.ok = FALSE, !.kind = "Io", !.msg = msg]
ErrInvalidFormat(op, msg) ==
    [NoResult EXCEPT !.op = op, !.ok = FALSE, !.kind = "InvalidFormat", !.msg = msg]
ErrIndexOutOfBounds(op, index, count) ==
    [NoResult EXCEPT !.op = op, !.ok = FALSE, !.kind = "IndexOutOfBounds",
                     !.index = index, !.count = count]
ErrOther(op, msg, pos) ==
    [NoResult EXCEPT !.op = op, !.ok = FALSE, !.kind = "Other", !.msg = msg, !.pos = pos]

(***************************************************************************)
(* The format identity (impl ArchiveFormat for EraFormat).                 *)
(***************************************************************************)
\* The GUID {12345678-ABCD-EF01-2345-6789ABCDEF01} of the format.
Data1 == 305419896
Data2 == 43981
Data3 == 61185
Data4 == <<35, 69, 103, 137, 171, 205, 239, 1>>

\* class_id(): the 16 bytes the function returns.
class_id_BigEndian ==
    <<18, 52, 86, 120, 171, 205, 239, 1, 35, 69, 103, 137, 171, 205, 239, 1>>

class_id ==
    <<120, 86, 52, 18, 205, 171, 1, 239, 35, 69, 103, 137, 171, 205, 239, 1>>

signature == None

supports_write == TRUE

supports_update == TRUE

(***************************************************************************)
(* The session (struct EraFormat) and its reader operations.               *)
(***************************************************************************)
\* #[derive(Default)]: the session after construction.
EmptySession ==
    [archive |-> None, archive_data |-> None, items |-> <<>>, archive_size |-> 0]

Session == [archive |-> archive, archive_data |-> archive_data, items |-> items,
            archive_size |-> archive_size]

RECURSIVE Decimal(_)
Decimal(n) == IF n < 10 THEN <<48 + n>> ELSE Append(Decimal(n \div 10), 48 + (n % 10))

\* format!("entry_{}", i)
FormatEntry(i) == <<101, 110, 116, 114, 121, 95>> \o Decimal(i)

\* The loop of open over archive.iter().enumerate(): position 0 is skipped,
\* every other entry becomes an item that records its position.
RECURSIVE ItemsFrom_NoSkip(_, _)
ItemsFrom_NoSkip(entries, i) ==
    IF i >= Len(entries) THEN <<>>
    ELSE LET entry == entries[i + 1]
             name == IF entry.filename # None THEN entry.filename[1] ELSE FormatEntry(i)
         IN  <<[info |-> [name |-> name, size |-> entry.decomp_size,
                          compressed_size |-> entry.chunk_size],
                era_index |-> i]>> \o ItemsFrom_NoSkip(entries, i + 1)

RECURSIVE ItemsFrom(_, _)
ItemsFrom(entries, i) ==
    IF i >= Len(entries) THEN <<>>
    ELSE IF i = 0 THEN ItemsFrom(entries, i + 1)
    ELSE LET entry == entries[i + 1]
             name == IF entry.filename # None THEN entry.filename[1] ELSE FormatEntry(i)
         IN  <<[info |-> [name |-> name, size |-> entry.decomp_size,
                          compressed_size |-> entry.chunk_size],
                era_index |-> i]>> \o ItemsFrom(entries, i + 1)

\* EraFormat::open: the session and the result after open on session s of a
\* stream that yields `bytes` (or fails to be read) with the host's `size`.
OpenOn(s, bytes, size, rdFails) ==
    LET s1 == [s EXCEPT !.archive_size = size]
        s2 == [s1 EXCEPT !.archive_data = Some(bytes)]
        parsed == EraArchiveNew(DecryptAll(bytes))
    IN  IF rdFails
        THEN [session |-> s1, res |-> ErrIo("open", "Failed to read archive")]
        ELSE IF ~parsed.ok
        THEN [session |-> s2, res |-> ErrInvalidFormat("open", "Failed to parse ERA")]
        ELSE [session |-> [s2 EXCEPT !.items = ItemsFrom(parsed.entries, 0),
                                     !.archive = Some(parsed.entries)],
              res |-> Ok("open")]

item_count(s) == Len(s.items)

get_item(s, index) == IF index < Len(s.items) THEN Some(s.items[index + 1].info) ELSE None

physical_size(s) == Some(s.archive_size)

\* The error of items.get(index).ok_or(...) when the index has no item.
OutOfBounds_Swapped(op, s, index) == ErrIndexOutOfBounds(op, Len(s.items), index)

OutOfBounds(op, s, index) == ErrIndexOutOfBounds(op, index, Len(s.items))

\* extract past the bounds check: the handle is taken and the entry at the
\* item's recorded position is read.
ReadItem_ByIndex(s, index) ==
    IF s.archive = None
    THEN ErrOther("extract", "Archive not open", 0)
    ELSE LET r == read_entry(s.archive[1], index)
         IN  IF r.ok THEN OkData("extract", r.data)
             ELSE ErrOther("extract", "Failed to read entry", index)

ReadItem(s, index) ==
    LET era_index == s.items[index + 1].era_index
    IN  IF s.archive = None
        THEN ErrOther("extract", "Archive not open", 0)
        ELSE LET r == read_entry(s.archive[1], era_index)
             IN  IF r.ok THEN OkData("extract", r.data)
                 ELSE ErrOther("extract", "Failed to read entry", era_index)

\* EraFormat::extract: the result of extract(index) on session s.
ExtractOn(s, index) ==
    IF index >= Len(s.items) THEN OutOfBounds("extract", s, index)
    ELSE ReadItem(s, index)

\* EraFormat::close
CloseOn_KeepsItems(s) ==
    [s EXCEPT !.archive = None, !.archive_data = None, !.archive_size = 0]

CloseOn_KeepsSize(s) ==
    [s EXCEPT !.archive = None, !.archive_data = None, !.items = <<>>]

CloseOn(s) ==
    [s EXCEPT !.archive = None, !.archive_data = None, !.items = <<>>,
              !.archive_size = 0]

(***************************************************************************)
(* The updater (update_streaming).                                         *)
(***************************************************************************)
CopyExisting(index, new_name) ==
    [kind |-> "CopyExisting", index |-> index, new_name |-> new_name,
     name |-> <<>>, data |-> <<>>]

AddNew(name, data) ==
    [kind |-> "AddNew", index |-> 0, new_name |-> None, name |-> name, data |-> data]

\* The filename of a copied entry: new_name if provided, otherwise the
\* item's name, otherwise the placeholder.
CopyFilename_Original(s, update, era_index) ==
    IF update.index < Len(s.items) THEN s.items[update.index + 1].info.name
    ELSE FormatEntry(era_index)

CopyFilename(s, update, era_index) ==
    IF update.new_name # None THEN update.new_name[1]
    ELSE IF update.index < Len(s.items) THEN s.items[update.index + 1].info.name
    ELSE FormatEntry(era_index)

\* The CopyExisting arm: the compressed entry at the item's position is
\* read and staged as a pre-compressed file.
CopyArm_ByIndex(s, w, update) ==
    IF update.index >= Len(s.items)
    THEN [ok |-> FALSE, w |-> w, err |-> OutOfBounds("update", s, update.index)]
    ELSE LET era_index == update.index
         IN  IF s.archive = None
             THEN [ok |-> FALSE, w |-> w,
                   err |-> ErrOther("update", "Archive not open", 0)]
             ELSE LET rc == read_entry_compressed(s.archive[1], era_index)
                  IN  IF ~rc.ok
                      THEN [ok |-> FALSE, w |-> w,
                            err |-> ErrOther("update", "Failed to read entry", 0)]
                      ELSE [ok |-> TRUE, err |-> NoResult,
                            w |-> add_compressed_file(
                                     w, CopyFilename(s, update, era_index), rc.comp,
                                     rc.decomp_size, rc.tiger128)]

CopyArm(s, w, update) ==
    IF update.index >= Len(s.items)
    THEN [ok |-> FALSE, w |-> w, err |-> OutOfBounds("update", s, update.index)]
    ELSE LET era_index == s.items[update.index + 1].era_index
         IN  IF s.archive = None
             THEN [ok |-> FALSE, w |-> w,
                   err |-> ErrOther("update", "Archive not open", 0)]
             ELSE LET rc == read_entry_compressed(s.archive[1], era_index)
                  IN  IF ~rc.ok
                      THEN [ok |-> FALSE, w |-> w,
                            err |-> ErrOther("update", "Failed to read entry", 0)]
                      ELSE [ok |-> TRUE, err |-> NoResult,
                            w |-> add_compressed_file(
                                     w, CopyFilename(s, update, era_index), rc.comp,
                                     rc.decomp_size, rc.tiger128)]

\* The AddNew arm: the payload goes through the writer's ordinary add path.
AddArm_Placeholder(w, update) ==
    [ok |-> TRUE, err |-> NoResult,
     w |-> add_file(w, FormatEntry(Len(w) + 1), update.data)]

AddArm(w, update) ==
    [ok |-> TRUE, err |-> NoResult, w |-> add_file(w, update.name, update.data)]

\* One iteration of the loop over `updates`: the writer after the operation,
\* or the error the `?` returns.
StageEdit(s, w, update) ==
    IF update.kind = "CopyExisting" THEN CopyArm(s, w, update) ELSE AddArm(w, update)

\* The loop over `updates`, in list order, stopping at the first error.
RECURSIVE StageAll_Reversed(_, _, _)
StageAll_Reversed(s, updates, w) ==
    IF updates = <<>> THEN [ok |-> TRUE, err |-> NoResult, w |-> w]
    ELSE LET one == StageEdit(s, w, updates[Len(updates)])
         IN  IF ~one.ok THEN one
             ELSE StageAll_Reversed(s, SubSeq(updates, 1, Len(updates) - 1), one.w)

RECURSIVE StageAll(_, _, _)
StageAll(s, updates, w) ==
    IF updates = <<>> THEN [ok |-> TRUE, err |-> NoResult, w |-> w]
    ELSE LET one == StageEdit(s, w, Head(updates))
         IN  IF ~one.ok THEN one ELSE StageAll(s, Tail(updates), one.w)

\* Write::write_all on the host's sink: the sink takes `cap` bytes before
\* its write fails (None: it takes everything).
WriteAll(output_data, cap) ==
    IF cap = None \/ cap[1] >= Len(output_data)
    THEN [ok |-> TRUE, written |-> output_data]
    ELSE [ok |-> FALSE, written |-> SubSeq(output_data, 1, cap[1])]

\* update_streaming after the loop: the writer serializes through the
\* EncryptWriter into a buffer (wrFails: that fails), and the buffer is
\* written to the sink.
FinishUpdate_Unbuffered(st, wrFails, cap) ==
    LET output_data == EncryptAll(EraWrite(st.w))
        wr == WriteAll(output_data, cap)
    IN  IF ~st.ok THEN [res |-> st.err, sink |-> <<>>, staged |-> st.w]
        ELSE IF wrFails
        THEN [res |-> ErrOther("update", "Failed to write ERA", 0),
              sink |-> SubSeq(output_data, 1, 2), staged |-> st.w]
        ELSE IF ~wr.ok
        THEN [res |-> ErrIo("update", "Failed to write output"), sink |-> wr.written,
              staged |-> st.w]
        ELSE [res |-> OkLen("update", Len(output_data)), sink |-> wr.written,
              staged |-> st.w]

FinishUpdate(st, wrFails, cap) ==
    LET output_data == EncryptAll(EraWrite(st.w))
        wr == WriteAll(output_data, cap)
    IN  IF ~st.ok THEN [res |-> st.err, sink |-> <<>>, staged |-> st.w]
        ELSE IF wrFails
        THEN [res |-> ErrOther("update", "Failed to write ERA", 0), sink |-> <<>>,
              staged |-> st.w]
        ELSE IF ~wr.ok
        THEN [res |-> ErrIo("update", "Failed to write output"), sink |-> wr.written,
              staged |-> st.w]
        ELSE [res |-> OkLen("update", Len(output_data)), sink |-> wr.written,
              staged |-> st.w]

\* EraFormat::update_streaming on session s: the result, the bytes the sink
\* has received and the entries staged in the EraWriter.  The parameters
\* _existing and _existing_size are not read.
UpdateOn_Reparse(s, existing, existing_size, updates, wrFails, cap) ==
    IF ~EraArchiveNew(DecryptAll(existing)).ok
    THEN [res |-> ErrInvalidFormat("update", "Failed to parse ERA"), sink |-> <<>>,
          staged |-> <<>>]
    ELSE FinishUpdate(StageAll(s, updates, <<>>), wrFails, cap)

UpdateOn(s, existing, existing_size, updates, wrFails, cap) ==
    FinishUpdate(StageAll(s, updates, <<>>), wrFails, cap)

(***************************************************************************)
(* The inputs the host supplies.                                           *)
(***************************************************************************)
NameX == <<120>>
NameY == <<121>>
Payload1 == <<1, 2>>
Payload2 == <<3>>

File(name, data) == add_file(<<>>, name, data)[1]

\* two items; the second has no filename in the table and a stored digest
\* that is not the digest of its chunk
ArchTwo ==
    EncryptAll(Layout(<<NameX>>,
                      <<File(NameX, Payload1),
                        StagedFile(NameY, Compress(Payload2), Len(Payload2), 0)>>))

\* two items; the chunk of the first does not decode, the chunk of the
\* second runs past the end of the stream
ArchBad ==
    LET full == Layout(<<NameX, NameY>>,
                       <<StagedFile(NameX, <<5, 1>>, 1, Tiger128(<<5, 1>>)),
                         File(NameY, Payload1)>>)
    IN  EncryptAll(SubSeq(full, 1, Len(full) - 1))

\* a filename table and nothing else
ArchEmpty == EncryptAll(EraWrite(<<>>))

\* one item, whose filename in the table is the empty string
ArchNoName == EncryptAll(EraWrite(<<File(<<>>, Payload1)>>))

\* bytes that are no container
Garbage == <<1, 2, 3>>

Streams == {ArchTwo, ArchBad, ArchEmpty, ArchNoName, Garbage}

\* the size the host passes with a stream: its length, or not
Sizes(bytes) == {Len(bytes), Len(bytes) + 1}

\* every index that has an item, the first that has none and the next
Indices(s) == 0..(Len(s.items) + 1)

Edits(s) ==
    {CopyExisting(i, n) : i \in Indices(s), n \in {None, Some(NameY)}}
    \cup {AddNew(n, d) : n \in {NameX, <<>>}, d \in {Payload1, <<>>}}

EditLists(s, maxLen) == UNION {[1..k -> Edits(s)] : k \in 0..maxLen}

\* the writer fails to serialize, or the sink takes all, none or one byte
UpdateEnvs ==
    {[wrFails |-> TRUE, cap |-> None]}
    \cup {[wrFails |-> FALSE, cap |-> c] : c \in {None, Some(0), Some(1)}}

\* the `existing` stream and size the host passes to update
ExistingArgs ==
    {[bytes |-> ArchTwo, size |-> Len(ArchTwo)], [bytes |-> Garbage, size |-> 0]}

\* The arguments of the call in progress or last made.
NoCall ==
    [op |-> "none", bytes |-> <<>>, size |-> 0, rdFails |-> FALSE, index |-> 0,
     existing |-> <<>>, existing_size |-> 0,
     updates |-> <<>>, wrFails |-> FALSE, cap |-> None]

OpenCall(bytes, size, rdFails) ==
    [NoCall EXCEPT !.op = "open", !.bytes = bytes, !.size = size, !.rdFails = rdFails]
ExtractCall(index) == [NoCall EXCEPT !.op = "extract", !.index = index]
UpdateCall(ex, updates, env) ==
    [NoCall EXCEPT !.op = "update", !.existing = ex.bytes, !.existing_size = ex.size,
                   !.updates = updates, !.wrFails = env.wrFails, !.cap = env.cap]
CloseCall == [NoCall EXCEPT !.op = "close"]
ClassIdCall == [NoCall EXCEPT !.op = "class_id"]

(***************************************************************************)
(* The state machine: one adapter instance, called by the host.            *)
(***************************************************************************)
SetSession(s) ==
    /\ archive' = s.archive
    /\ archive_data' = s.archive_data
    /\ items' = s.items
    /\ archive_size' = s.archive_size

Init ==
    /\ archive = EmptySession.archive
    /\ archive_data = EmptySession.archive_data
    /\ items = EmptySession.items
    /\ archive_size = EmptySession.archive_size
    /\ call = NoCall
    /\ result = NoResult
    /\ sink = <<>>
    /\ staged = <<>>

Open ==
    \E bytes \in Streams, rdFails \in BOOLEAN :
      \E size \in Sizes(bytes) :
        LET o == OpenOn(Session, bytes, size, rdFails)
        IN  /\ SetSession(o.session)
            /\ call' = OpenCall(bytes, size, rdFails)
            /\ result' = o.res
            /\ sink' = <<>>
            /\ staged' = <<>>

Extract ==
    \E index \in Indices(Session) :
        /\ call' = ExtractCall(index)
        /\ result' = ExtractOn(Session, index)
        /\ sink' = <<>>
        /\ staged' = <<>>
        /\ UNCHANGED <<archive, archive_data, items, archive_size>>

\* update_streaming applied to the arguments c; the session is not assigned.
DoUpdate_TakesHandle(c) ==
    LET u == UpdateOn(Session, c.existing, c.existing_size, c.updates, c.wrFails,
                      c.cap)
    IN  /\ call' = c
        /\ result' = u.res
        /\ sink' = u.sink
        /\ staged' = u.staged
        /\ archive' = None
        /\ UNCHANGED <<archive_data, items, archive_size>>

DoUpdate(c) ==
    LET u == UpdateOn(Session, c.existing, c.existing_size, c.updates, c.wrFails,
                      c.cap)
    IN  /\ call' = c
        /\ result' = u.res
        /\ sink' = u.sink
        /\ staged' = u.staged
        /\ UNCHANGED <<archive, archive_data, items, archive_size>>

Update ==
    \E ex \in {e \in ExistingArgs : e.bytes = Garbage},
       updates \in EditLists(Session, 1), env \in UpdateEnvs :
        DoUpdate(UpdateCall(ex, updates, env))

Close ==
    /\ SetSession(CloseOn(Session))
    /\ call' = CloseCall
    /\ result' = Ok("close")
    /\ sink' = <<>>
    /\ staged' = <<>>

\* The host asks for the format's class identifier.
ClassId ==
    /\ call' = ClassIdCall
    /\ result' = OkData("class_id", class_id)
    /\ sink' = <<>>
    /\ staged' = <<>>
    /\ UNCHANGED <<archive, archive_data, items, archive_size>>

Next == Open \/ Extract \/ Update \/ Close \/ ClassId

Spec == Init /\ [][Next]_vars

(***************************************************************************)
(* update_streaming on its own: the host is about to call update with the  *)
(* arguments in `call` on a session that earlier calls have left.          *)
(***************************************************************************)
OpenedFrom(s, bytes) == OpenOn(s, bytes, Len(bytes), FALSE).session

SessionsForUpdate ==
    {EmptySession}
    \cup {OpenedFrom(EmptySession, b) : b \in Streams}
    \cup {OpenedFrom(OpenedFrom(EmptySession, ArchTwo), Garbage)}

InitUpdate ==
    \E s \in SessionsForUpdate :
      \E ex \in ExistingArgs, updates \in EditLists(s, MaxEdits), env \in UpdateEnvs :
        /\ archive = s.archive
        /\ archive_data = s.archive_data
        /\ items = s.items
        /\ archive_size = s.archive_size
        /\ call = UpdateCall(ex, updates, env)
        /\ result = NoResult
        /\ sink = <<>>
        /\ staged = <<>>

UpdatePending ==
    /\ result.op = "none"
    /\ call.op = "update"
    /\ DoUpdate(call)

NextUpdate == UpdatePending

SpecUpdate == InitUpdate /\ [][NextUpdate]_vars

(***************************************************************************)
(* Properties.                                                             *)
(***************************************************************************)
IsEmpty(s) ==
    /\ s.archive = None
    /\ s.archive_data = None
    /\ item_count(s) = 0
    /\ physical_size(s) = Some(0)

\* The new archive as a reader of the sink's bytes sees it.
Produced == EraArchiveNew(DecryptAll(sink))

\* The session a fresh adapter is in after open of the sink's bytes.
Reopened == OpenOn(EmptySession, sink, Len(sink), FALSE)

IsPrefix(a, b) == Len(a) <= Len(b) /\ a = SubSeq(b, 1, Len(a))

\* C1: whenever open fails, the session is empty afterwards (no handle, no
\* raw bytes, no items, physical size 0), and a parse failure is reported
\* as Invalid-Format.
C1_FailedOpenLeavesEmpty ==
    (call.op = "open" /\ ~result.ok) =>
        /\ IsEmpty(Session)
        /\ (~call.rdFails => result.kind = "InvalidFormat")

\* C2: the session and the result after open(B) are those of open(B) on a
\* freshly created session, whatever the session was before, on success
\* and on failure.
C2_OpenIgnoresPriorState ==
    call.op = "open" =>
        LET fresh == OpenOn(EmptySession, call.bytes, call.size, call.rdFails)
        IN  Session = fresh.session /\ result = fresh.res

\* C3 as stated: whenever update returns a failure, no byte has reached
\* the sink; bytes reach the sink only in a call that returns the full
\* archive length.
C3_FailedUpdateWritesNothing ==
    call.op = "update" /\ result.op = "update" =>
        /\ (~result.ok => sink = <<>>)
        /\ (sink # <<>> => result.ok /\ result.len = Len(sink))

\* C3 amended: a failure other than a sink write failure leaves the sink
\* without any byte; a sink write failure leaves it with a proper prefix of
\* the new archive; a success leaves it with the whole archive, whose
\* length is returned.
C3_OnlySinkFailureWritesPartially ==
    call.op = "update" /\ result.op = "update" =>
        LET output_data == EncryptAll(EraWrite(staged))
        IN  /\ (~result.ok /\ result.kind # "Io" => sink = <<>>)
            /\ (~result.ok /\ result.kind = "Io" =>
                    /\ Len(staged) = Len(call.updates)
                    /\ IsPrefix(sink, output_data)
                    /\ Len(sink) < Len(output_data))
            /\ (result.ok => sink = output_data /\ result.len = Len(output_data))

C3_Witness ==
    /\ result.op = "update"
    /\ ~result.ok
    /\ result.kind = "Io"
    /\ sink # <<>>
    /\ Len(call.updates) = 2

\* C4: every entry staged by a Copy-Existing with an in-bounds index carries
\* the compressed bytes, the decompressed size and the stored digest of the
\* container entry at the item's position, and the replacement name if one
\* is supplied, the item's name otherwise; the written archive holds it so.
C4_CopyCarriesEntryVerbatim ==
    result.op = "update" =>
      \A j \in 1..Len(staged) :
        call.updates[j].kind = "CopyExisting" =>
          LET u == call.updates[j]
              item == items[u.index + 1]
              name == IF u.new_name # None THEN u.new_name[1] ELSE item.info.name
          IN  /\ u.index < Len(items)
              /\ archive # None
              /\ LET entry == archive[1][item.era_index + 1]
                 IN  /\ staged[j] = StagedFile(name, entry.data, entry.decomp_size,
                                               entry.tiger128)
                     /\ result.ok =>
                          /\ Produced.ok
                          /\ Produced.entries[j + 1] =
                               [filename |-> Some(name), decomp_size |-> entry.decomp_size,
                                tiger128 |-> entry.tiger128, chunk_size |-> Len(entry.data),
                                data |-> entry.data]

C4_Witness ==
    /\ result.op = "update"
    /\ result.ok
    /\ Len(staged) = 2
    /\ call.updates[1] = CopyExisting(1, None)
    /\ call.updates[2] = CopyExisting(1, Some(NameY))
    /\ staged[1].name = FormatEntry(2)
    /\ staged[1].tiger128 # Tiger128(staged[1].comp)

\* C5: a successful update with edits e1..ek stages them in list order and
\* the new archive holds exactly k entries after the filename table, the
\* j-th being the one e_j produces.
C5_EntryOrderIsEditOrder ==
    (result.op = "update" /\ result.ok) =>
        /\ Len(staged) = Len(call.updates)
        /\ Produced.ok
        /\ Len(Produced.entries) = Len(call.updates) + 1
        /\ \A j \in 1..Len(call.updates) :
             LET one == StageEdit(Session, <<>>, call.updates[j]).w[1]
             IN  /\ staged[j] = one
                 /\ Produced.entries[j + 1].filename = Some(one.name)
                 /\ Produced.entries[j + 1].data = one.comp
                 /\ Produced.entries[j + 1].decomp_size = one.decomp_size
                 /\ Produced.entries[j + 1].tiger128 = one.tiger128

C5_Witness ==
    /\ result.op = "update"
    /\ result.ok
    /\ Len(call.updates) = 2
    /\ call.updates[1].kind = "AddNew"
    /\ call.updates[2].kind = "CopyExisting"
    /\ staged[1] # staged[2]

CopyAll(s) == [i \in 1..Len(s.items) |-> CopyExisting(i - 1, None)]

\* C6: after a successful update of an open archive of n items with the
\* edits Copy-Existing(0) .. Copy-Existing(n-1), open of the produced bytes
\* gives n items and extract of each gives what extract of the same item
\* of the original archive gives.
C6_CopyAllRoundTrip ==
    (result.op = "update" /\ result.ok /\ archive # None
       /\ call.updates = CopyAll(Session)) =>
        /\ Reopened.res.ok
        /\ item_count(Reopened.session) = item_count(Session)
        /\ \A i \in 0..(item_count(Session) - 1) :
             /\ ExtractOn(Reopened.session, i) = ExtractOn(Session, i)
             /\ get_item(Reopened.session, i)[1].size = get_item(Session, i)[1].size

C6_Witness ==
    /\ result.op = "update"
    /\ result.ok
    /\ archive # None
    /\ item_count(Session) = 2
    /\ call.updates = CopyAll(Session)
    /\ ExtractOn(Reopened.session, 0) = OkData("extract", Payload1)
    /\ ExtractOn(Reopened.session, 1) = OkData("extract", Payload2)

\* C7: after a successful update with the single edit Add-New(x, D), open
\* of the produced bytes gives exactly one item, named x, and extract(0)
\* returns D.
C7_AddNewRoundTrip ==
    (result.op = "update" /\ result.ok /\ Len(call.updates) = 1
       /\ call.updates[1].kind = "AddNew") =>
        /\ Reopened.res.ok
        /\ item_count(Reopened.session) = 1
        /\ get_item(Reopened.session, 0)[1].name = call.updates[1].name
        /\ ExtractOn(Reopened.session, 0) = OkData("extract", call.updates[1].data)

C7_Witness ==
    /\ result.op = "update"
    /\ result.ok
    /\ call.updates = <<AddNew(NameX, Payload1)>>
    /\ item_count(Reopened.session) = 1
    /\ ExtractOn(Reopened.session, 0) = OkData("extract", Payload1)

\* C8: after a successful open of a container of n entries the items are
\* the entries at positions 1..n-1 in increasing order (item i is position
\* i+1), so item_count() = n - 1 and position 0 is no item's position.
C8_ItemsAreEntriesAfterTable ==
    (call.op = "open" /\ result.ok) =>
        LET n == DecryptAll(call.bytes)[2]
        IN  /\ archive # None
            /\ Len(archive[1]) = n
            /\ item_count(Session) = n - 1
            /\ \A i \in 0..(item_count(Session) - 1) :
                 /\ items[i + 1].era_index = i + 1
                 /\ items[i + 1].info.size = archive[1][i + 2].decomp_size
                 /\ items[i + 1].info.compressed_size = archive[1][i + 2].chunk_size

C8_Witness ==
    /\ call.op = "open"
    /\ result.ok
    /\ item_count(Session) = 2
    /\ Len(archive[1]) = 3

\* C9: on an open session extract(i) with i < item_count() either returns
\* the complete decompressed payload of the entry at item i's position,
\* of the item's reported size, or fails with an opaque error carrying that
\* position.
C9_ExtractReadsMappedEntry ==
    (call.op = "extract" /\ archive # None /\ call.index < item_count(Session)) =>
        LET item == items[call.index + 1]
            entry == archive[1][item.era_index + 1]
            payload == Decompress(entry.data)
        IN  \/ /\ result.ok
               /\ Len(entry.data) = entry.chunk_size
               /\ payload.ok
               /\ result.data = payload.data
               /\ Len(result.data) = item.info.size
            \/ /\ ~result.ok
               /\ result.kind = "Other"
               /\ result.msg = "Failed to read entry"
               /\ result.pos = item.era_index

C9_Witness ==
    /\ call.op = "extract"
    /\ archive # None
    /\ call.index = 1
    /\ result.ok
    /\ result.data = Payload2

\* C10: on an open session extract(i) with i >= item_count() fails with
\* Index-Out-Of-Bounds carrying i and the current item_count().
C10_ExtractOutOfBounds ==
    (call.op = "extract" /\ archive # None /\ call.index >= item_count(Session)) =>
        /\ ~result.ok
        /\ result.kind = "IndexOutOfBounds"
        /\ result.index = call.index
        /\ result.count = item_count(Session)

C10_Witness ==
    /\ call.op = "extract"
    /\ archive # None
    /\ item_count(Session) = 2
    /\ call.index = 3
    /\ result.kind = "IndexOutOfBounds"

\* C11: if no archive is open (never opened, closed, or left by a failed
\* first open), extract(i) fails with the generic "not open" error and with
\* no other kind of error.
C11_ExtractWhenNotOpen ==
    (call.op = "extract" /\ archive = None) =>
        /\ ~result.ok
        /\ result.kind = "Other"
        /\ result.msg = "Archive not open"

IsOutOfBoundsCopy(s, update) ==
    update.kind = "CopyExisting" /\ update.index >= item_count(s)

\* The place in the list of the first Copy-Existing whose index has no item.
FirstOutOfBounds(s, updates) ==
    CHOOSE j \in 1..Len(updates) :
        /\ IsOutOfBoundsCopy(s, updates[j])
        /\ \A k \in 1..(j - 1) : ~IsOutOfBoundsCopy(s, updates[k])

HasOutOfBounds(s, updates) ==
    \E j \in 1..Len(updates) : IsOutOfBoundsCopy(s, updates[j])

\* C12 as stated: an update whose list holds a Copy-Existing with index >=
\* item_count() fails with Index-Out-Of-Bounds carrying the index of the
\* first such operation and item_count(), whatever precedes or follows it.
C12_UpdateOutOfBoundsAlways ==
    (result.op = "update" /\ HasOutOfBounds(Session, call.updates)) =>
        result = ErrIndexOutOfBounds(
                     "update",
                     call.updates[FirstOutOfBounds(Session, call.updates)].index,
                     item_count(Session))

\* C12 amended: such an update fails; it fails with Index-Out-Of-Bounds
\* carrying the index of the first such operation and item_count() when
\* every operation before that one was staged, and otherwise with the read
\* error of the earlier in-bounds Copy-Existing that stopped the staging.
C12_UpdateOutOfBoundsUnlessEarlierFailure ==
    (result.op = "update" /\ HasOutOfBounds(Session, call.updates)) =>
        LET j == FirstOutOfBounds(Session, call.updates)
        IN  /\ ~result.ok
            /\ sink = <<>>
            /\ Len(staged) <= j - 1
            /\ Len(staged) = j - 1 =>
                 result = ErrIndexOutOfBounds("update", call.updates[j].index,
                                              item_count(Session))
            /\ Len(staged) < j - 1 =>
                 /\ call.updates[Len(staged) + 1].kind = "CopyExisting"
                 /\ result = ErrOther("update", "Failed to read entry", 0)

C12_Witness ==
    /\ result.op = "update"
    /\ item_count(Session) = 2
    /\ Len(call.updates) = 2
    /\ call.updates[1].kind = "AddNew"
    /\ call.updates[2] = CopyExisting(3, None)
    /\ Len(staged) = 1
    /\ result = ErrIndexOutOfBounds("update", 3, 2)

\* C13: from every reachable session state close does not fail and leaves
\* the session empty (no handle, no raw bytes, no items, item_count() = 0,
\* physical_size() = 0); a close of an empty session changes nothing.
C13_CloseLeavesEmpty ==
    call.op = "close" =>
        /\ result = Ok("close")
        /\ Session = EmptySession
        /\ IsEmpty(Session)
        /\ CloseOn(Session) = Session

C13_Witness ==
    /\ call.op = "close"
    /\ result.ok
    /\ IsEmpty(Session)

\* C14: after a successful open physical_size() is the byte length of the
\* raw archive bytes that open read and retained, for every stream and
\* every size argument the host passes.
C14_PhysicalSizeIsByteLength ==
    (call.op = "open" /\ result.ok) =>
        /\ archive_data = Some(call.bytes)
        /\ physical_size(Session) = Some(Len(archive_data[1]))

\* C15: after a successful open every item has a non-empty name: the
\* entry's decoded filename when the entry has one, the placeholder
\* entry_<container position> otherwise.
C15_ItemNamesNonEmpty ==
    (call.op = "open" /\ result.ok) =>
        \A i \in 1..Len(items) :
            LET entry == archive[1][items[i].era_index + 1]
            IN  /\ items[i].info.name # <<>>
                /\ items[i].info.name =
                     IF entry.filename # None THEN entry.filename[1]
                     ELSE FormatEntry(items[i].era_index)

\* The n low bytes of v, least significant first.
RECURSIVE LittleEndian(_, _)
LittleEndian(v, n) ==
    IF n = 0 THEN <<>> ELSE <<v % 256>> \o LittleEndian(v \div 256, n - 1)

\* C16: in every state class_id() is the 16 bytes 78 56 34 12 CD AB 01 EF
\* 23 45 67 89 AB CD EF 01, that is Data1, Data2 and Data3 of the GUID in
\* little-endian order followed by the 8 bytes of Data4; signature() is
\* absent; supports_write() and supports_update() are true.
C16_FormatIdentity ==
    /\ call.op = "class_id" =>
         result = OkData("class_id", <<120, 86, 52, 18, 205, 171, 1, 239,
                                       35, 69, 103, 137, 171, 205, 239, 1>>)
    /\ class_id = LittleEndian(Data1, 4) \o LittleEndian(Data2, 2)
                  \o LittleEndian(Data3, 2) \o Data4
    /\ Len(class_id) = 16
    /\ signature = None
    /\ supports_write
    /\ supports_update

C16_Witness ==
    /\ archive # None
    /\ call.op = "class_id"
    /\ result.data[1] = 120
    /\ result.data[16] = 1

\* C17: in every reachable state, if no container handle is held the item
\* list is empty, and if one is held the item list is the derivation
\* (positions >= 1, in order) of that handle's entries; so no call ends in
\* the "Archive not open" branch of extract or update.
C17_ItemsMatchHandle ==
    /\ archive = None => items = <<>>
    /\ archive # None =>
         /\ items = ItemsFrom(archive[1], 0)
         /\ Len(items) = Len(archive[1]) - 1
         /\ \A i \in 1..Len(items) : items[i].era_index = i
    /\ result.msg # "Archive not open"

C17_Witness ==
    /\ call.op = "open"
    /\ ~result.ok
    /\ archive # None
    /\ Len(items) = 2
    /\ archive_data # None
    /\ ~EraArchiveNew(DecryptAll(archive_data[1])).ok

\* C18: extract and update, whether they succeed or fail, leave the session
\* as it was: handle, raw bytes, item list and physical size are unchanged,
\* and so are item_count(), get_item(i), physical_size() and the result of
\* a later extract(i).
C18_ExtractUpdateKeepSession ==
    [][ call'.op \in {"extract", "update"} =>
          /\ archive' = archive
          /\ archive_data' = archive_data
          /\ items' = items
          /\ archive_size' = archive_size
          /\ item_count(Session)' = item_count(Session)
          /\ physical_size(Session)' = physical_size(Session) ]_vars

C18_Witness ==
    /\ call.op = "update"
    /\ ~result.ok
    /\ archive # None
    /\ archive_data # None
    /\ Len(items) = 2
    /\ archive_size = Len(archive_data[1]) + 1

\* C19 as stated: the result of update is determined by the session and the
\* edit list alone, whatever `existing` and `existing_size` are; update
\* never reports Invalid-Format; with no archive open an update made only
\* of Add-New operations succeeds.
C19_UpdateDependsOnSessionAndEditsOnly ==
    result.op = "update" =>
        /\ \A ex \in ExistingArgs, env \in UpdateEnvs :
             UpdateOn(Session, ex.bytes, ex.size, call.updates, env.wrFails,
                      env.cap).res = result
        /\ result.kind # "InvalidFormat"
        /\ (archive = None /\ \A j \in 1..Len(call.updates) :
                                  call.updates[j].kind = "AddNew") => result.ok

\* C19 amended: for the same behaviour of the writer and the sink, the
\* result, the bytes written and the returned length are the same whatever
\* `existing` and `existing_size` are; update never reports Invalid-Format;
\* with no archive open an update made only of Add-New operations succeeds
\* unless the serialization or the sink write fails.
C19_UpdateIgnoresExisting ==
    result.op = "update" =>
        /\ \A ex \in ExistingArgs :
             LET u == UpdateOn(Session, ex.bytes, ex.size, call.updates, call.wrFails,
                               call.cap)
             IN  u.res = result /\ u.sink = sink
        /\ result.kind # "InvalidFormat"
        /\ (archive = None /\ ~call.wrFails /\ call.cap = None
              /\ \A j \in 1..Len(call.updates) : call.updates[j].kind = "AddNew") =>
             /\ result.ok
             /\ result.len = Len(sink)
             /\ Reopened.res.ok
             /\ item_count(Reopened.session) = Len(call.updates)

C19_Witness ==
    /\ result.op = "update"
    /\ archive = None
    /\ call.existing = Garbage
    /\ call.updates = <<AddNew(NameX, Payload1)>>
    /\ result.ok
    /\ sink # <<>>

====
